---- MODULE Spec2Model ----
(***************************************************************************)
(* Call session bridge of isibi-backend (src/main.py, handle_media_stream) *)
(* together with the credit ledger it reads and charges (src/db.py).       *)
(*                                                                         *)
(* One call is two cooperative coroutines, receive_from_twilio (inbound    *)
(* relay) and send_to_twilio (outbound relay), that share the nonlocal     *)
(* variables of handle_media_stream.  A coroutine runs without             *)
(* interruption between two awaits; in_pc and out_pc name the await at     *)
(* which each relay is suspended.  Money is counted in units of 1/10000    *)
(* dollar.  None and the empty string are both falsy in every test the     *)
(* code makes on stream_sid, agent_id, item ids and payloads, so "" stands *)
(* for both; an optional value is <<>> (None) or <<v>>.                    *)
(***************************************************************************)
EXTENDS Integers, Sequences, FiniteSets, TLC

\* ---------------------------------------------------------------- bounds
MaxTwilioEvents == 3      \* telephony events handled in one call
MaxAiEvents == 3          \* AI events handled in one call

\* ------------------------------------------------------- input alphabets
None == <<>>
Some(v) == <<v>>

StreamSids == {"MZ1"}
ItemIds == {"item_A", "item_B"}
AudioPayloads == {"", "ulaw"}   \* base64 audio; "" is an empty or missing payload
CallerPayloads == {"ulaw"}
\* raw media.timestamp values: integers as sent by Twilio, absent, malformed
RawTimestamps == {"5000", "6200", "absent", "bad"}
\* customParameters.agent_id: absent, an existing agent, an unknown agent
AgentIdParams == {"", "7", "9"}
ToolNames == {"check_availability", "log_call_summary", "no_such_tool"}
ToolOutcomes == {"result", "empty", "raises"}
CallIds == {"call_1"}
Durations == {0, 1, 42}
InitialBalances == {0, 40, 100000}
\* a database call of the start handler that raises: none, get_agent_by_id, get_user_credits
DbFaults == {"none", "lookup", "credits"}
\* the To number of the incoming-call webhook: absent, the number of agent 7 with and
\* without its plus sign, and a number no agent has
CalledNumbers == {"", "+15550100", "15550100", "+15550199", "15550199"}
\* a database call of the stop handler that raises: none, end_call_tracking, deduct_credits
StopFaults == {"none", "tracking", "deduct"}
\* the calls of add_credits and deduct_credits that may be in flight for one account
MaxRequests == 3
ReqIds == 1..MaxRequests
\* amounts of a purchase and of a charge, in 1/10000 dollar
PurchaseAmounts == {500}
ChargeAmounts == {300, 700}
\* the balance of an account when the requests begin
OpeningBalances == {0, 1000}

\* ------------------------------------------------------------- variables
VARIABLES
    stream_sid,                      \* main.py:219
    latest_media_timestamp,          \* main.py:220
    last_assistant_item,             \* main.py:221
    mark_queue,                      \* main.py:222
    response_start_timestamp_twilio, \* main.py:223
    first_message_sent,              \* main.py:224
    agent_id,                        \* main.py:191
    agent,                           \* main.py:192
    openai_open,                     \* the openai_ws connection is open
    twilio_open,                     \* the Twilio websocket is open
    in_pc,                           \* position of receive_from_twilio
    out_pc,                          \* position of send_to_twilio
    out_local,                       \* locals of the AI event being handled
    handler_done,                    \* handle_media_stream has returned or raised
    trace,                           \* the frames sent on both connections, in order
    tw_events,                       \* number of telephony events handled
    ai_events,                       \* number of AI events handled
    dispatch_overdue,                \* the tool dispatch in flight has run past the timeout bound
    declined,                        \* the branch of main.py:309 was taken: balance <= 0
    balance_ok,                      \* the branch of main.py:334 was taken: balance > 0
    db_balance,                      \* user_credits.balance of the agent's owner
    db_total_used,                   \* user_credits.total_used
    credit_transactions,             \* rows of credit_transactions, in insertion order
    call_usage,                      \* rows of call_usage, in insertion order
    db_total_purchased,              \* user_credits.total_purchased
    user_credits_row,                \* the owner has a row in user_credits
    requests                         \* calls of add_credits and deduct_credits made by other
                                     \* requests and processes, each with its position and locals

session == <<stream_sid, latest_media_timestamp, last_assistant_item, mark_queue,
             response_start_timestamp_twilio, first_message_sent, agent_id, agent>>
conns == <<openai_open, twilio_open>>
gate == <<declined, balance_ok>>
ledger == <<db_total_purchased, user_credits_row, requests>>
db == <<db_balance, db_total_used, credit_transactions, call_usage, ledger>>
vars == <<stream_sid, latest_media_timestamp, last_assistant_item, mark_queue,
          response_start_timestamp_twilio, first_message_sent, agent_id, agent,
          openai_open, twilio_open, in_pc, out_pc, out_local, handler_done, trace,
          tw_events, ai_events, dispatch_overdue, declined, balance_ok,
          db_balance, db_total_used, credit_transactions, call_usage,
          db_total_purchased, user_credits_row, requests>>

\* a call of add_credits or deduct_credits that has not been made yet
NoRequest == [op |-> "none", pc |-> "none", amount |-> 0, current_balance |-> 0,
              success |-> FALSE]

\* the account of a call handled alone: the row exists, nothing was purchased beyond
\* the balance, and no other request is working on it
LedgerIdle ==
    /\ db_total_purchased = db_balance
    /\ user_credits_row = TRUE
    /\ requests = [r \in ReqIds |-> NoRequest]

\* ------------------------------------------------------- frames and trace
\* ch: "ai_tx" frame sent on openai_ws, "tw_tx" frame sent on the Twilio websocket,
\*     "ai_rx" a speech_started, speech_stopped or function-call event taken from
\*     openai_ws, "tw_rx" a media or mark event taken from the Twilio websocket.
\*     "log" what the stop branch logs about the finalization (main.py:565-700).
\* by: the relay that handled or sent it.  item: utterance id, call id or payload.
\* ms: audio_end_ms of a truncate frame.  info: further detail of the frame.
Frame(ch, by, type, item, ms, info) ==
    [ch |-> ch, by |-> by, type |-> type, item |-> item, ms |-> ms, info |-> info]

NoLocal == [type |-> "", item |-> "", info |-> "", outcome |-> ""]

Max(a, b) == IF a >= b THEN a ELSE b

\* int(data["media"].get("timestamp", 0)) with the except branch of main.py:535-538
media_timestamp(raw) ==
    CASE raw = "5000" -> 5000
      [] raw = "6200" -> 6200
      [] raw = "absent" -> 0
      [] OTHER -> 0


\* the elapsed time sent without the clamp of main.py:262
audio_end_ms_unclamped(latest, start) == latest - start
\* audio_end_ms of the truncate frame, main.py:251 and main.py:262
audio_end_ms(latest, start) == Max(0, latest - start)

\* the two early returns of handle_speech_started_event, main.py:245-249
truncation_needed(item, start) == item # "" /\ start # None

\* the test of main.py:985 without its comparison to last_assistant_item
is_new_item_every_chunk(item_id, last) == item_id # ""
\* the test of main.py:985 that starts the truncation timer
is_new_item(item_id, last) == item_id # "" /\ item_id # last

\* the drop test of main.py:980 without its test of stream_sid
chunk_dropped_payload_only(audio_b64, sid) == audio_b64 = ""
\* the drop test of main.py:980
chunk_dropped(audio_b64, sid) == audio_b64 = "" \/ sid = ""

\* int(agent_id) of main.py:299; None stands for the ValueError of a non-numeric string
parse_agent_id(param) ==
    CASE param = "7" -> Some(7)
      [] param = "9" -> Some(9)
      [] OTHER -> None

\* db.py:1206-1211: the agents table holds one live agent, id 7, owned by user 1
get_agent_by_id(n) == IF n = 7 THEN Some([id |-> 7, owner_user_id |-> 1]) ELSE None

\* db.py:1214-1220: agent 7 is stored with phone_number +15550100
get_agent_by_phone(phone_number) ==
    IF phone_number = "+15550100" THEN get_agent_by_id(7) ELSE None

\* called_number.startswith("+"), called_number[1:] and f"+{called_number}" of
\* main.py:81-90
starts_with_plus(number) == number \in {"+15550100", "+15550199"}
without_plus(number) ==
    CASE number = "+15550100" -> "15550100"
      [] number = "+15550199" -> "15550199"
      [] OTHER -> number
with_plus(number) ==
    CASE number = "15550100" -> "+15550100"
      [] number = "15550199" -> "+15550199"
      [] OTHER -> number

\* main.py:74-90: the agent of the dialed number, tried in up to three formats
resolve_called_number(called_number) ==
    IF called_number = "" THEN None
    ELSE LET original == get_agent_by_phone(called_number)
             no_plus == IF original = None /\ starts_with_plus(called_number)
                          THEN get_agent_by_phone(without_plus(called_number))
                          ELSE original
         IN IF no_plus = None /\ ~starts_with_plus(called_number)
              THEN get_agent_by_phone(with_plus(called_number))
              ELSE no_plus

\* str(agent['id']) of main.py:110
str_agent_id(found) == IF found[1].id = 7 THEN "7" ELSE "9"

\* the TwiML with a <Connect><Stream> for every call, agent or not
incoming_call_twiml_always_connects(found) ==
    [verb |-> "Connect", detail |-> IF found = None THEN "" ELSE str_agent_id(found)]
\* main.py:97-119: the TwiML the webhook answers with; detail is the spoken text of
\* <Say> or the agent_id parameter of <Connect><Stream>
incoming_call_twiml(found) ==
    IF found = None
      THEN [verb |-> "Say", detail |-> "No agent is configured on this number."]
      ELSE [verb |-> "Connect", detail |-> str_agent_id(found)]

\* round(x, 2) of a money amount held in 1/10000 dollar (round half to even)
round2(units) ==
    LET q == units \div 100
        r == units % 100
    IN IF r > 50 \/ (r = 50 /\ q % 2 = 1) THEN (q + 1) * 100 ELSE q * 100

\* db.py:942-969: the balance get_user_credits reports
get_user_credits(balance) == round2(balance)

\* the gate of main.py:309
insufficient_credits(reported) == reported <= 0

\* round(n / d) to the nearest integer, half to even
round_div(n, d) ==
    LET q == n \div d
        r == n % d
    IN IF 2 * r > d \/ (2 * r = d /\ q % 2 = 1) THEN q + 1 ELSE q

\* db.py:929-932 called without the revenue_per_minute=0.10 of main.py:572, so with
\* the default rate of 0.25 of db.py:929
calculate_call_revenue_default_rate(duration_seconds) == round_div(duration_seconds * 2500, 60)
\* db.py:929-932 with revenue_per_minute=0.10 (main.py:572), in 1/10000 dollar:
\* round(seconds / 60 * 0.10, 4) * 10000 = round(seconds * 1000 / 60)
calculate_call_revenue(duration_seconds) == round_div(duration_seconds * 1000, 60)

\* deduct_credits writing the balance it read, not new_balance, into balance_after
deduct_credits_stale_balance_after(balance, used, txs, amount) ==
    IF balance < amount
      THEN [success |-> FALSE, balance |-> balance, total_used |-> used, txs |-> txs]
      ELSE [success |-> TRUE, balance |-> balance - amount, total_used |-> used + amount,
            txs |-> Append(txs, [amount |-> 0 - amount, type |-> "usage",
                                 balance_after |-> balance])]

\* db.py:1051-1102: the rows deduct_credits leaves behind
deduct_credits(balance, used, txs, amount) ==
    IF balance < amount
      THEN [success |-> FALSE, balance |-> balance, total_used |-> used, txs |-> txs]
      ELSE [success |-> TRUE, balance |-> balance - amount, total_used |-> used + amount,
            txs |-> Append(txs, [amount |-> 0 - amount, type |-> "usage",
                                 balance_after |-> balance - amount])]

\* db.py:703-840: end_call_tracking closes the call_usage rows of this call_sid
end_call_tracking(rows, sid, seconds) ==
    [i \in DOMAIN rows |->
        IF rows[i].call_sid = sid
          THEN [rows[i] EXCEPT !.status = "completed", !.duration_seconds = seconds]
          ELSE rows[i]]

\* what json.loads and the if/elif chain of main.py:737-956 do before any external call:
\* "raises" (bad JSON, or int(agent_id) of a missing or non-numeric agent id),
\* "none" (no branch matches: result stays None), "local" (log_call_summary builds
\* its result in place), "external" (a synchronous call into an integration)
tool_route(name, args_ok, aid) ==
    IF ~args_ok THEN "raises"
    ELSE IF name = "check_availability"
           THEN IF parse_agent_id(aid) = None THEN "raises" ELSE "external"
    ELSE IF name = "log_call_summary" THEN "local"
    ELSE "none"

\* main.py:958: only a truthy result is sent back
result_sent(outcome) == outcome = "result"

InitWith(balances) ==
    /\ stream_sid = ""
    /\ latest_media_timestamp = 0
    /\ last_assistant_item = ""
    /\ mark_queue = <<>>
    /\ response_start_timestamp_twilio = None
    /\ first_message_sent = FALSE
    /\ agent_id = ""
    /\ agent = None
    /\ openai_open = TRUE
    /\ twilio_open = TRUE
    /\ in_pc = "wait"
    /\ out_pc = "idle"
    /\ out_local = NoLocal
    /\ handler_done = FALSE
    /\ trace = <<Frame("ai_tx", "handler", "session.update", "", 0, "default")>>
    /\ tw_events = 0
    /\ ai_events = 0
    /\ dispatch_overdue = FALSE
    /\ declined = FALSE
    /\ balance_ok = FALSE
    /\ db_balance \in balances
    /\ db_total_used = 0
    /\ LedgerIdle
    /\ credit_transactions = <<>>
    /\ call_usage = <<>>

Init == InitWith(InitialBalances)

\* The event loop runs one coroutine at a time; a synchronous tool call
\* (main.py:742-956 are plain calls, not awaits) keeps the loop for itself.
loop_free == out_pc # "dispatch" /\ ~handler_done

\* ------------------------------------------- receive_from_twilio (inbound)
InboundReady == loop_free /\ in_pc = "wait" /\ twilio_open /\ tw_events < MaxTwilioEvents

\* the media branch re-encoding the caller's audio before it forwards it
twilio_media_on_reencoded(raws, payloads) ==
    /\ InboundReady
    /\ \E raw \in raws, payload \in payloads :
        LET rx == Frame("tw_rx", "in", "media", payload, 0, "")
        IN
        /\ latest_media_timestamp' = media_timestamp(raw)
        /\ IF openai_open
             THEN /\ trace' = trace \o
                        <<rx, Frame("ai_tx", "in", "input_audio_buffer.append", "pcm", 0, "")>>
                  /\ in_pc' = "wait"
             ELSE /\ in_pc' = "raised"
                  /\ trace' = Append(trace, rx)
    /\ tw_events' = tw_events + 1
    /\ UNCHANGED <<stream_sid, last_assistant_item, mark_queue, response_start_timestamp_twilio,
                   first_message_sent, agent_id, agent, conns, out_pc, out_local, handler_done,
                   ai_events, dispatch_overdue, gate, db>>

\* main.py:533-548: a media event with one of the given timestamps and payloads
twilio_media_on(raws, payloads) ==
    /\ InboundReady
    /\ \E raw \in raws, payload \in payloads :
        LET rx == Frame("tw_rx", "in", "media", payload, 0, "")
        IN
        /\ latest_media_timestamp' = media_timestamp(raw)
        /\ IF openai_open
             THEN /\ trace' = trace \o
                        <<rx, Frame("ai_tx", "in", "input_audio_buffer.append", payload, 0, "")>>
                  /\ in_pc' = "wait"
             ELSE /\ in_pc' = "raised"
                  /\ trace' = Append(trace, rx)
    /\ tw_events' = tw_events + 1
    /\ UNCHANGED <<stream_sid, last_assistant_item, mark_queue, response_start_timestamp_twilio,
                   first_message_sent, agent_id, agent, conns, out_pc, out_local, handler_done,
                   ai_events, dispatch_overdue, gate, db>>

\* main.py:550-552 without the test of mark_queue: pop(0) on an empty list raises
\* IndexError into the except Exception of receive_from_twilio (main.py:716)
twilio_mark_unguarded ==
    /\ InboundReady
    /\ mark_queue' = IF mark_queue # <<>> THEN Tail(mark_queue) ELSE mark_queue
    /\ trace' = Append(trace, Frame("tw_rx", "in", "mark", "", 0, ""))
    /\ tw_events' = tw_events + 1
    /\ in_pc' = IF mark_queue # <<>> THEN in_pc ELSE "raised"
    /\ UNCHANGED <<stream_sid, latest_media_timestamp, last_assistant_item,
                   response_start_timestamp_twilio, first_message_sent, agent_id, agent, conns,
                   out_pc, out_local, handler_done, ai_events, dispatch_overdue, gate, db>>

\* main.py:550-552
twilio_mark ==
    /\ InboundReady
    /\ mark_queue' = IF mark_queue # <<>> THEN Tail(mark_queue) ELSE mark_queue
    /\ trace' = Append(trace, Frame("tw_rx", "in", "mark", "", 0, ""))
    /\ tw_events' = tw_events + 1
    /\ UNCHANGED <<stream_sid, latest_media_timestamp, last_assistant_item,
                   response_start_timestamp_twilio, first_message_sent, agent_id, agent, conns,
                   in_pc, out_pc, out_local, handler_done, ai_events, dispatch_overdue, gate, db>>

\* ------------------------------------------------ send_to_twilio (outbound)
OutboundReady == loop_free /\ out_pc = "idle" /\ openai_open /\ ai_events < MaxAiEvents

\* main.py:977-997: an audio delta up to the await of websocket.send_text
openai_audio_delta_on(item_ids, payloads) ==
    /\ OutboundReady
    /\ \E item_id \in item_ids, audio_b64 \in payloads :
        IF chunk_dropped(audio_b64, stream_sid)
          THEN /\ UNCHANGED trace
               /\ UNCHANGED <<last_assistant_item, response_start_timestamp_twilio, out_pc, out_local>>
          ELSE /\ IF is_new_item(item_id, last_assistant_item)
                    THEN /\ response_start_timestamp_twilio' = Some(latest_media_timestamp)
                         /\ last_assistant_item' = item_id
                    ELSE UNCHANGED <<last_assistant_item, response_start_timestamp_twilio>>
               /\ IF twilio_open
                    THEN /\ trace' = Append(trace, Frame("tw_tx", "out", "media", item_id, 0, audio_b64))
                         /\ out_pc' = "send_mark"
                         /\ out_local' = [NoLocal EXCEPT !.type = "delta", !.item = item_id]
                    ELSE /\ UNCHANGED trace
                         /\ out_pc' = "done"
                         /\ out_local' = NoLocal
    /\ ai_events' = ai_events + 1
    /\ UNCHANGED <<stream_sid, latest_media_timestamp, mark_queue, first_message_sent, agent_id,
                   agent, conns, in_pc, handler_done, tw_events, dispatch_overdue, gate, db>>

\* main.py:227-238: send_mark up to the await of websocket.send_text
send_mark ==
    /\ loop_free /\ out_pc = "send_mark"
    /\ IF stream_sid = ""
         THEN /\ out_pc' = "idle" /\ out_local' = NoLocal /\ UNCHANGED trace
         ELSE IF twilio_open
           THEN /\ trace' = Append(trace, Frame("tw_tx", "out", "mark", out_local.item, 0, "responsePart"))
                /\ out_pc' = "mark_append"
                /\ UNCHANGED out_local
           ELSE /\ out_pc' = "done" /\ out_local' = NoLocal /\ UNCHANGED trace
    /\ UNCHANGED <<session, conns, in_pc, handler_done, tw_events, ai_events,
                   dispatch_overdue, gate, db>>

\* main.py:239
send_mark_append ==
    /\ loop_free /\ out_pc = "mark_append"
    /\ mark_queue' = Append(mark_queue, "responsePart")
    /\ out_pc' = "idle"
    /\ out_local' = NoLocal
    /\ UNCHANGED <<stream_sid, latest_media_timestamp, last_assistant_item,
                   response_start_timestamp_twilio, first_message_sent, agent_id, agent, conns,
                   in_pc, handler_done, trace, tw_events, ai_events, dispatch_overdue, gate, db>>


\* the barge-in handler clearing the Twilio buffer and the mark queue on every
\* speech_started, with only the truncate frame behind the test of main.py:245-249
handle_speech_started_event_always_clears ==
    /\ OutboundReady
    /\ LET rx == Frame("ai_rx", "out", "input_audio_buffer.speech_started", last_assistant_item, 0, "") IN
       IF ~truncation_needed(last_assistant_item, response_start_timestamp_twilio)
         THEN /\ trace' = Append(trace, rx)
              /\ out_pc' = "send_clear"
              /\ out_local' = [NoLocal EXCEPT !.type = "speech_started"]
         ELSE /\ trace' = trace \o
                    <<rx, Frame("ai_tx", "out", "conversation.item.truncate", last_assistant_item,
                                audio_end_ms(latest_media_timestamp, response_start_timestamp_twilio[1]), "")>>
              /\ out_pc' = "send_clear"
              /\ out_local' = [NoLocal EXCEPT !.type = "speech_started", !.item = last_assistant_item]
    /\ ai_events' = ai_events + 1
    /\ UNCHANGED <<session, conns, in_pc, handler_done, tw_events, dispatch_overdue, gate, db>>
\* main.py:1001-1003 and 241-264: speech_started up to the await of the truncate send
handle_speech_started_event ==
    /\ OutboundReady
    /\ LET rx == Frame("ai_rx", "out", "input_audio_buffer.speech_started", last_assistant_item, 0, "") IN
       IF ~truncation_needed(last_assistant_item, response_start_timestamp_twilio)
         THEN /\ trace' = Append(trace, rx)
              /\ UNCHANGED <<out_pc, out_local>>
         ELSE /\ trace' = trace \o
                    <<rx, Frame("ai_tx", "out", "conversation.item.truncate", last_assistant_item,
                                audio_end_ms(latest_media_timestamp, response_start_timestamp_twilio[1]), "")>>
              /\ out_pc' = "send_clear"
              /\ out_local' = [NoLocal EXCEPT !.type = "speech_started", !.item = last_assistant_item]
    /\ ai_events' = ai_events + 1
    /\ UNCHANGED <<session, conns, in_pc, handler_done, tw_events, dispatch_overdue, gate, db>>


\* the interruption procedure without the clear frame of main.py:267-269
speech_started_clear_omitted ==
    /\ loop_free /\ out_pc = "send_clear"
    /\ out_pc' = "reset_item"
    /\ UNCHANGED <<session, conns, in_pc, out_local, handler_done, trace, tw_events, ai_events,
                   dispatch_overdue, gate, db>>
\* main.py:266-269: the clear frame, up to the await of websocket.send_text
speech_started_clear ==
    /\ loop_free /\ out_pc = "send_clear"
    /\ IF twilio_open
         THEN /\ trace' = Append(trace, Frame("tw_tx", "out", "clear", out_local.item, 0, stream_sid))
              /\ out_pc' = "reset_item"
              /\ UNCHANGED out_local
         ELSE /\ out_pc' = "done" /\ out_local' = NoLocal /\ UNCHANGED trace
    /\ UNCHANGED <<session, conns, in_pc, handler_done, tw_events, ai_events,
                   dispatch_overdue, gate, db>>

\* the reset of main.py:271-272 without line 273
speech_started_reset_keeps_timestamp ==
    /\ loop_free /\ out_pc = "reset_item"
    /\ mark_queue' = <<>>
    /\ last_assistant_item' = ""
    /\ out_pc' = "idle"
    /\ out_local' = NoLocal
    /\ UNCHANGED <<stream_sid, latest_media_timestamp, response_start_timestamp_twilio,
                   first_message_sent, agent_id, agent, conns, in_pc, handler_done, trace,
                   tw_events, ai_events, dispatch_overdue, gate, db>>

\* main.py:271-273
speech_started_reset ==
    /\ loop_free /\ out_pc = "reset_item"
    /\ mark_queue' = <<>>
    /\ last_assistant_item' = ""
    /\ response_start_timestamp_twilio' = None
    /\ out_pc' = "idle"
    /\ out_local' = NoLocal
    /\ UNCHANGED <<stream_sid, latest_media_timestamp, first_message_sent, agent_id, agent, conns,
                   in_pc, handler_done, trace, tw_events, ai_events, dispatch_overdue, gate, db>>

\* the reset and the greeting without the first_message_sent = True of main.py:530
start_epilogue_flag_not_set(tr, ai_up) ==
    /\ response_start_timestamp_twilio' = None
    /\ latest_media_timestamp' = 0
    /\ last_assistant_item' = ""
    /\ UNCHANGED first_message_sent
    /\ IF first_message_sent
         THEN /\ trace' = tr
              /\ in_pc' = "wait"
         ELSE IF ai_up
           THEN /\ trace' = Append(tr, Frame("ai_tx", "in", "response.create", "", 0, "greeting"))
                /\ in_pc' = "wait"
           ELSE /\ trace' = tr
                /\ in_pc' = "raised"

\* main.py:512-531: "Reset per-call state" and the automatic greeting, run with the
\* frames tr already sent in this step and ai_up saying whether openai_ws is open.
\* A send on a closed openai_ws raises ConnectionClosed, which receive_from_twilio
\* does not catch (main.py:705 catches WebSocketDisconnect only).
start_epilogue(tr, ai_up) ==
    /\ response_start_timestamp_twilio' = None
    /\ latest_media_timestamp' = 0
    /\ last_assistant_item' = ""
    /\ IF first_message_sent
         THEN /\ trace' = tr
              /\ in_pc' = "wait"
              /\ UNCHANGED first_message_sent
         ELSE IF ai_up
           THEN /\ trace' = Append(tr, Frame("ai_tx", "in", "response.create", "", 0, "greeting"))
                /\ first_message_sent' = TRUE
                /\ in_pc' = "wait"
           ELSE /\ trace' = tr
                /\ in_pc' = "raised"
                /\ UNCHANGED first_message_sent

\* main.py:284-511: the start event up to its first await
twilio_start_on(params, faults) ==
    /\ InboundReady
    /\ \E sid \in StreamSids, param \in params, fault \in faults :
        LET parsed == parse_agent_id(param)
            looked_up == param # "" /\ parsed # None /\ fault # "lookup"
            agent_now == IF looked_up THEN get_agent_by_id(parsed[1]) ELSE agent
            credits_read == looked_up /\ agent_now # None /\ fault # "credits"
        IN
        /\ stream_sid' = sid
        /\ agent_id' = param
        /\ agent' = agent_now
        /\ IF credits_read /\ insufficient_credits(get_user_credits(db_balance))
             THEN \* main.py:309-322
                  /\ declined' = TRUE
                  /\ UNCHANGED <<balance_ok, call_usage>>
                  /\ IF openai_open
                       THEN /\ trace' = Append(trace,
                                Frame("ai_tx", "in", "response.create", "", 0, "decline"))
                            /\ in_pc' = "decline_sleep"
                            /\ UNCHANGED <<latest_media_timestamp, last_assistant_item,
                                           response_start_timestamp_twilio, first_message_sent>>
                       ELSE start_epilogue(trace, openai_open)
             ELSE IF credits_read
               THEN \* main.py:334-507
                    /\ call_usage' = Append(call_usage,
                           [call_sid |-> sid, status |-> "active", duration_seconds |-> 0])
                    /\ balance_ok' = TRUE
                    /\ UNCHANGED declined
                    /\ IF openai_open
                         THEN /\ trace' = Append(trace,
                                  Frame("ai_tx", "in", "session.update", "", 0, "agent"))
                              /\ in_pc' = "configured"
                              /\ UNCHANGED <<latest_media_timestamp, last_assistant_item,
                                             response_start_timestamp_twilio, first_message_sent>>
                         ELSE start_epilogue(trace, openai_open)
               ELSE /\ UNCHANGED <<declined, balance_ok, call_usage>>
                    /\ start_epilogue(trace, openai_open)
    /\ tw_events' = tw_events + 1
    /\ UNCHANGED <<mark_queue, conns, out_pc, out_local, handler_done, ai_events,
                   dispatch_overdue, db_balance, db_total_used, credit_transactions, ledger>>

\* the hang-up of the insufficient-credits branch without the openai_ws.close() of
\* main.py:327
twilio_start_decline_hangup_keeps_ai ==
    /\ loop_free /\ in_pc = "decline_sleep"
    /\ start_epilogue(trace, openai_open)
    /\ UNCHANGED <<stream_sid, mark_queue, agent_id, agent, conns, out_pc, out_local,
                   handler_done, tw_events, ai_events, dispatch_overdue, gate, db>>

\* main.py:322-333, then 509-531: after the 8 second sleep openai_ws is closed, the
\* name twilio_ws is not defined anywhere, so line 330 raises NameError before the
\* return of line 333; the except of line 509 catches it and the handler goes on
\* with the reset and the greeting.
twilio_start_decline_hangup ==
    /\ loop_free /\ in_pc = "decline_sleep"
    /\ openai_open' = FALSE
    /\ start_epilogue(trace, FALSE)
    /\ UNCHANGED <<stream_sid, mark_queue, agent_id, agent, twilio_open, out_pc, out_local,
                   handler_done, tw_events, ai_events, dispatch_overdue, gate, db>>

\* main.py:507-531: after initialize_session and the 0.5 second sleep
twilio_start_configured ==
    /\ loop_free /\ in_pc = "configured"
    /\ start_epilogue(trace, openai_open)
    /\ UNCHANGED <<stream_sid, mark_queue, agent_id, agent, conns, out_pc, out_local,
                   handler_done, tw_events, ai_events, dispatch_overdue, gate, db>>

\* main.py:556-700: what the stop branch does to the database and what it logs.
\* fault says which call raises: "tracking" (end_call_tracking, main.py:580) or
\* "deduct" (deduct_credits, main.py:585); the except of main.py:698 logs either.
stop_billing(sid, agent_now, rows, balance, used, txs, duration_seconds, fault) ==
    LET charge == deduct_credits(balance, used, txs, calculate_call_revenue(duration_seconds))
        closed == end_call_tracking(rows, sid, duration_seconds)
    IN IF sid = "" \/ agent_now = None
         THEN [outcome |-> "untracked", usage |-> rows, balance |-> balance,
               total_used |-> used, txs |-> txs]
       ELSE IF duration_seconds < 1
         THEN [outcome |-> "too_short", usage |-> rows, balance |-> balance,
               total_used |-> used, txs |-> txs]
       ELSE IF fault = "tracking"
         THEN [outcome |-> "raised", usage |-> rows, balance |-> balance,
               total_used |-> used, txs |-> txs]
       ELSE IF fault = "deduct"
         THEN [outcome |-> "raised", usage |-> closed, balance |-> balance,
               total_used |-> used, txs |-> txs]
       ELSE [outcome |-> IF charge.success THEN "charged" ELSE "deduction_failed",
             usage |-> closed, balance |-> charge.balance,
             total_used |-> charge.total_used, txs |-> charge.txs]

\* the stop branch with the try of main.py:558 missing: a failed finalization leaves
\* receive_from_twilio by the exception instead of the break of main.py:703
twilio_stop_on_failure_escapes(durations) ==
    /\ InboundReady
    /\ \E duration_seconds \in durations, fault \in StopFaults :
        LET billing == stop_billing(stream_sid, agent, call_usage, db_balance, db_total_used,
                                    credit_transactions, duration_seconds, fault)
        IN
        /\ trace' = Append(trace, Frame("log", "in", "stop", "", 0, billing.outcome))
        /\ call_usage' = billing.usage
        /\ db_balance' = billing.balance
        /\ db_total_used' = billing.total_used
        /\ credit_transactions' = billing.txs
        /\ in_pc' = IF billing.outcome \in {"raised", "deduction_failed"} THEN "raised" ELSE "done"
    /\ tw_events' = tw_events + 1
    /\ UNCHANGED <<session, conns, out_pc, out_local, handler_done, ai_events,
                   dispatch_overdue, gate, ledger>>

\* main.py:554-703
twilio_stop_on(durations) ==
    /\ InboundReady
    /\ \E duration_seconds \in durations, fault \in StopFaults :
        LET billing == stop_billing(stream_sid, agent, call_usage, db_balance, db_total_used,
                                    credit_transactions, duration_seconds, fault)
        IN
        /\ trace' = Append(trace, Frame("log", "in", "stop", "", 0, billing.outcome))
        /\ call_usage' = billing.usage
        /\ db_balance' = billing.balance
        /\ db_total_used' = billing.total_used
        /\ credit_transactions' = billing.txs
    /\ in_pc' = "done"
    /\ tw_events' = tw_events + 1
    /\ UNCHANGED <<session, conns, out_pc, out_local, handler_done, ai_events,
                   dispatch_overdue, gate, ledger>>

\* main.py:705-710
twilio_disconnected ==
    /\ loop_free /\ in_pc = "wait" /\ ~twilio_open
    /\ openai_open' = FALSE
    /\ in_pc' = "done"
    /\ UNCHANGED <<session, twilio_open, out_pc, out_local, handler_done, trace, tw_events,
                   ai_events, dispatch_overdue, gate, db>>

\* speech_stopped handled without the commit of main.py:1008
openai_speech_stopped_without_commit ==
    /\ OutboundReady
    /\ trace' = Append(trace, Frame("ai_rx", "out", "input_audio_buffer.speech_stopped", "", 0, ""))
    /\ out_pc' = "send_response"
    /\ out_local' = [NoLocal EXCEPT !.type = "speech_stopped"]
    /\ ai_events' = ai_events + 1
    /\ UNCHANGED <<session, conns, in_pc, handler_done, tw_events, dispatch_overdue, gate, db>>

\* main.py:1006-1008: speech_stopped up to the await of the commit send
openai_speech_stopped ==
    /\ OutboundReady
    /\ trace' = trace \o
          <<Frame("ai_rx", "out", "input_audio_buffer.speech_stopped", "", 0, ""),
            Frame("ai_tx", "out", "input_audio_buffer.commit", "", 0, "")>>
    /\ out_pc' = "send_response"
    /\ out_local' = [NoLocal EXCEPT !.type = "speech_stopped"]
    /\ ai_events' = ai_events + 1
    /\ UNCHANGED <<session, conns, in_pc, handler_done, tw_events, dispatch_overdue, gate, db>>

\* main.py:1009 and main.py:970: the response.create that follows a commit or a tool
\* result; a failed send is caught at main.py:973 after a tool result and at main.py:1011
\* (ending the relay) after a commit
send_response_create ==
    /\ loop_free /\ out_pc = "send_response"
    /\ IF openai_open
         THEN /\ trace' = Append(trace, Frame("ai_tx", "out", "response.create", out_local.item, 0,
                                              out_local.type))
              /\ out_pc' = "idle"
         ELSE /\ out_pc' = IF out_local.type = "function_call" THEN "idle" ELSE "done"
              /\ UNCHANGED trace
    /\ out_local' = NoLocal
    /\ UNCHANGED <<session, conns, in_pc, handler_done, tw_events, ai_events,
                   dispatch_overdue, gate, db>>

\* a tool failure that leaves the try of main.py:737 through the except of main.py:1011
\* instead of the except of main.py:973, which ends the outbound relay
tool_result_failure_ends_relay(tr, call_id, outcome) ==
    IF result_sent(outcome)
      THEN /\ trace' = Append(tr, Frame("ai_tx", "out", "function_call_output", call_id, 0, outcome))
           /\ out_pc' = "send_response"
           /\ out_local' = [NoLocal EXCEPT !.type = "function_call", !.item = call_id]
      ELSE /\ trace' = tr
           /\ out_pc' = "done"
           /\ out_local' = NoLocal

\* main.py:958-967: the tool result goes back only when it is truthy
tool_result(tr, call_id, outcome) ==
    IF result_sent(outcome)
      THEN /\ trace' = Append(tr, Frame("ai_tx", "out", "function_call_output", call_id, 0, outcome))
           /\ out_pc' = "send_response"
           /\ out_local' = [NoLocal EXCEPT !.type = "function_call", !.item = call_id]
      ELSE /\ trace' = tr
           /\ out_pc' = "idle"
           /\ out_local' = NoLocal

\* main.py:730-956: a function call event up to the call into the integration
openai_function_call_on(names, outcomes) ==
    /\ OutboundReady
    /\ \E call_id \in CallIds, name \in names, args_ok \in BOOLEAN, outcome \in outcomes :
        LET rx == Frame("ai_rx", "out", "response.function_call_arguments.done", call_id, 0, name)
            route == tool_route(name, args_ok, agent_id)
        IN
        IF route = "external"
          THEN /\ trace' = Append(trace, rx)
               /\ out_pc' = "dispatch"
               /\ out_local' = [type |-> "function_call", item |-> call_id, info |-> name,
                                outcome |-> outcome]
          ELSE tool_result(Append(trace, rx), call_id,
                           IF route = "local" THEN "result" ELSE IF route = "none" THEN "empty" ELSE "raises")
    /\ ai_events' = ai_events + 1
    /\ UNCHANGED <<session, conns, in_pc, handler_done, tw_events, dispatch_overdue, gate, db>>

\* main.py:743-763 returning or raising, then 958-975
tool_dispatch_returns ==
    /\ out_pc = "dispatch" /\ ~handler_done
    /\ IF openai_open \/ ~result_sent(out_local.outcome)
         THEN tool_result(trace, out_local.item, out_local.outcome)
         ELSE /\ out_pc' = "idle" /\ out_local' = NoLocal /\ UNCHANGED trace
    /\ dispatch_overdue' = FALSE
    /\ UNCHANGED <<session, conns, in_pc, handler_done, tw_events, ai_events, gate, db>>

\* the clock passes the dispatch timeout bound of spec section 4.5 while the call of
\* main.py:743-763 has not returned; the code arms no timer
dispatch_timeout_elapses ==
    /\ out_pc = "dispatch" /\ ~handler_done /\ ~dispatch_overdue
    /\ dispatch_overdue' = TRUE
    /\ UNCHANGED <<session, conns, in_pc, out_pc, out_local, handler_done, trace, tw_events,
                   ai_events, gate, db>>

\* main.py:716: the async for ends when openai_ws is closed
openai_stream_ends ==
    /\ loop_free /\ out_pc = "idle" /\ ~openai_open
    /\ out_pc' = "done"
    /\ UNCHANGED <<session, conns, in_pc, out_local, handler_done, trace, tw_events, ai_events,
                   dispatch_overdue, gate, db>>

\* main.py:1014 and 205-211: gather returns when both relays have returned and raises as
\* soon as one raises; leaving the async with closes openai_ws, and the websocket route
\* ending closes the Twilio websocket
gather_returns ==
    /\ ~handler_done
    /\ in_pc = "raised" \/ (in_pc = "done" /\ out_pc = "done")
    /\ handler_done' = TRUE
    /\ openai_open' = FALSE
    /\ twilio_open' = FALSE
    /\ UNCHANGED <<session, in_pc, out_pc, out_local, trace, tw_events, ai_events,
                   dispatch_overdue, gate, db>>

\* the caller hangs up or the telephony edge drops the websocket
twilio_connection_lost ==
    /\ twilio_open /\ ~handler_done
    /\ twilio_open' = FALSE
    /\ UNCHANGED <<session, openai_open, in_pc, out_pc, out_local, handler_done, trace,
                   tw_events, ai_events, dispatch_overdue, gate, db>>

\* the speech backend drops the connection
openai_connection_lost ==
    /\ openai_open /\ ~handler_done
    /\ openai_open' = FALSE
    /\ UNCHANGED <<session, twilio_open, in_pc, out_pc, out_local, handler_done, trace,
                   tw_events, ai_events, dispatch_overdue, gate, db>>

\* ------------------------------------------------------ specifications
\* The audio path of a call in progress: caller audio, AI audio chunks with
\* their marks, and barge-in signals, with the telephony connection free to drop at any
\* time.  It starts in the state the start event of a funded agent leaves behind
\* (CallInProgress, reached in SpecGate).
CallInProgress ==
    /\ stream_sid = "MZ1"
    /\ latest_media_timestamp = 0
    /\ last_assistant_item = ""
    /\ mark_queue = <<>>
    /\ response_start_timestamp_twilio = None
    /\ first_message_sent = TRUE
    /\ agent_id = "7"
    /\ agent = get_agent_by_id(7)
    /\ openai_open = TRUE
    /\ twilio_open = TRUE
    /\ in_pc = "wait"
    /\ out_pc = "idle"
    /\ out_local = NoLocal
    /\ handler_done = FALSE
    /\ trace = <<Frame("ai_tx", "handler", "session.update", "", 0, "default"),
                 Frame("ai_tx", "in", "session.update", "", 0, "agent"),
                 Frame("ai_tx", "in", "response.create", "", 0, "greeting")>>
    /\ tw_events = 1
    /\ ai_events = 0
    /\ dispatch_overdue = FALSE
    /\ declined = FALSE
    /\ balance_ok = TRUE
    /\ db_balance = 100000
    /\ db_total_used = 0
    /\ LedgerIdle
    /\ credit_transactions = <<>>
    /\ call_usage = <<[call_sid |-> "MZ1", status |-> "active", duration_seconds |-> 0]>>

\* The state a start event without agent_id leaves behind (main.py:287, 297, 512-531):
\* the default session, the greeting requested, nothing tracked.  Reached in SpecGate.
CallWithoutAgent ==
    /\ stream_sid = "MZ1"
    /\ latest_media_timestamp = 0
    /\ last_assistant_item = ""
    /\ mark_queue = <<>>
    /\ response_start_timestamp_twilio = None
    /\ first_message_sent = TRUE
    /\ agent_id = ""
    /\ agent = None
    /\ openai_open = TRUE
    /\ twilio_open = TRUE
    /\ in_pc = "wait"
    /\ out_pc = "idle"
    /\ out_local = NoLocal
    /\ handler_done = FALSE
    /\ trace = <<Frame("ai_tx", "handler", "session.update", "", 0, "default"),
                 Frame("ai_tx", "in", "response.create", "", 0, "greeting")>>
    /\ tw_events = 1
    /\ ai_events = 0
    /\ dispatch_overdue = FALSE
    /\ declined = FALSE
    /\ balance_ok = FALSE
    /\ db_balance = 100000
    /\ db_total_used = 0
    /\ LedgerIdle
    /\ credit_transactions = <<>>
    /\ call_usage = <<>>

InitBargeIn == CallInProgress

NextBargeIn ==
    \/ twilio_media_on({"5000", "6200"}, CallerPayloads)
    \/ twilio_disconnected
    \/ openai_audio_delta_on(ItemIds, {"ulaw"})
    \/ send_mark
    \/ send_mark_append
    \/ handle_speech_started_event
    \/ speech_started_clear
    \/ speech_started_reset
    \/ openai_stream_ends
    \/ gather_returns
    \/ twilio_connection_lost

SpecBargeIn == InitBargeIn /\ [][NextBargeIn]_vars

\* The start of a call and what follows it: every outcome of the agent lookup and of
\* the balance read, caller audio, the stop event, and either connection free to drop
\* at any time.  The AI backend stays silent, so the outbound relay only waits.
InitGate == InitWith(InitialBalances)

NextGate ==
    \/ twilio_start_on(AgentIdParams, DbFaults)
    \/ twilio_start_decline_hangup
    \/ twilio_start_configured
    \/ twilio_media_on({"5000"}, CallerPayloads)
    \/ twilio_stop_on(Durations)
    \/ twilio_disconnected
    \/ openai_stream_ends
    \/ gather_returns
    \/ twilio_connection_lost
    \/ openai_connection_lost

SpecGate == InitGate /\ [][NextGate]_vars

\* The event loop runs every coroutine that is ready: a sleep that has expired, a
\* relay whose connection has closed and the gather whose awaitables have finished
\* are resumed.  Events of the two connections are under no such obligation.
FairSpecGate ==
    /\ SpecGate
    /\ WF_vars(twilio_start_decline_hangup)
    /\ WF_vars(twilio_start_configured)
    /\ WF_vars(twilio_disconnected)
    /\ WF_vars(openai_stream_ends)
    /\ WF_vars(gather_returns)

\* A call in progress, with or without an agent, during which the AI backend asks for
\* tools: every tool name, every outcome of the integration, caller audio arriving meanwhile, and either connection
\* free to drop at any time.
InitTools == CallInProgress \/ CallWithoutAgent

NextTools ==
    \/ twilio_media_on({"5000"}, CallerPayloads)
    \/ twilio_disconnected
    \/ openai_function_call_on(ToolNames, ToolOutcomes)
    \/ tool_dispatch_returns
    \/ dispatch_timeout_elapses
    \/ openai_speech_stopped
    \/ send_response_create
    \/ openai_stream_ends
    \/ gather_returns
    \/ twilio_connection_lost
    \/ openai_connection_lost

SpecTools == InitTools /\ [][NextTools]_vars

\* Tool calls that fail, with and without an agent on the call, while caller audio
\* and speech-stopped signals keep arriving and the telephony connection may drop;
\* the dispatch is left to return or raise in its own time.
InitToolFailure == CallInProgress \/ CallWithoutAgent

NextToolFailure ==
    \/ twilio_media_on({"5000"}, CallerPayloads)
    \/ twilio_disconnected
    \/ openai_function_call_on(ToolNames, ToolOutcomes)
    \/ tool_dispatch_returns
    \/ openai_speech_stopped
    \/ send_response_create
    \/ openai_stream_ends
    \/ gather_returns
    \/ twilio_connection_lost

SpecToolFailure == InitToolFailure /\ [][NextToolFailure]_vars

\* main.py:61-119: the incoming-call webhook answers Twilio with TwiML
incoming_call_on(numbers) ==
    /\ in_pc = "no_stream" /\ trace = <<>>
    /\ \E called_number \in numbers :
        LET twiml == incoming_call_twiml(resolve_called_number(called_number))
        IN trace' = <<Frame("http", "incoming_call", twiml.verb, called_number, 0, twiml.detail)>>
    /\ UNCHANGED <<session, conns, in_pc, out_pc, out_local, handler_done, tw_events,
                   ai_events, dispatch_overdue, gate, db>>

\* main.py:174-225: Twilio follows <Connect><Stream> and opens /media-stream; the
\* handler accepts, connects to the AI backend and sends the default session
media_stream_connects ==
    /\ in_pc = "no_stream" /\ Len(trace) = 1 /\ trace[1].type = "Connect"
    /\ twilio_open' = TRUE
    /\ openai_open' = TRUE
    /\ trace' = Append(trace, Frame("ai_tx", "handler", "session.update", "", 0, "default"))
    /\ in_pc' = "wait"
    /\ out_pc' = "idle"
    /\ UNCHANGED <<session, out_local, handler_done, tw_events, ai_events, dispatch_overdue,
                   gate, db>>

\* The utterance bookkeeping of a call in progress under everything that writes it:
\* AI audio chunks, barge-in signals, caller audio and repeated start events, each
\* relay free to run while the other is suspended in the middle of an operation.
InitUtterance == CallInProgress

NextUtterance ==
    \/ twilio_start_on({"7"}, {"none"})
    \/ twilio_start_configured
    \/ twilio_media_on({"5000"}, CallerPayloads)
    \/ twilio_disconnected
    \/ openai_audio_delta_on(ItemIds, {"ulaw"})
    \/ send_mark
    \/ send_mark_append
    \/ handle_speech_started_event
    \/ speech_started_clear
    \/ speech_started_reset
    \/ openai_stream_ends
    \/ gather_returns
    \/ twilio_connection_lost

SpecUtterance == InitUtterance /\ [][NextUtterance]_vars

\* The end of a call in progress: the stop event among caller audio and AI audio
\* chunks, and either connection free to drop at any time.
InitDrain == CallInProgress

NextDrain ==
    \/ twilio_media_on({"5000"}, CallerPayloads)
    \/ twilio_stop_on({42})
    \/ twilio_disconnected
    \/ openai_audio_delta_on({"item_A"}, {"ulaw"})
    \/ send_mark
    \/ send_mark_append
    \/ openai_stream_ends
    \/ gather_returns
    \/ twilio_connection_lost
    \/ openai_connection_lost

SpecDrain == InitDrain /\ [][NextDrain]_vars

\* The turn-taking of a call in progress: the caller's speech ending, the response
\* requests that follow it and those that follow a tool result, caller audio
\* arriving meanwhile, and either connection free to drop at any time.
InitTurns == CallInProgress

NextTurns ==
    \/ twilio_media_on({"5000"}, CallerPayloads)
    \/ twilio_disconnected
    \/ openai_speech_stopped
    \/ send_response_create
    \/ openai_function_call_on({"log_call_summary", "no_such_tool"}, {"result"})
    \/ openai_stream_ends
    \/ gather_returns
    \/ twilio_connection_lost
    \/ openai_connection_lost

SpecTurns == InitTurns /\ [][NextTurns]_vars

\* Caller audio from the moment the media stream is open: frames that can be told
\* apart, with and without a timestamp, before and after the start event, and either
\* connection free to drop at any time.
InitCallerAudio == InitWith({100000})

NextCallerAudio ==
    \/ twilio_start_on({"7"}, {"none"})
    \/ twilio_start_configured
    \/ twilio_media_on({"5000", "absent"}, {"ulaw_1", "ulaw_2"})
    \/ twilio_disconnected
    \/ openai_stream_ends
    \/ gather_returns
    \/ twilio_connection_lost
    \/ openai_connection_lost

SpecCallerAudio == InitCallerAudio /\ [][NextCallerAudio]_vars

\* The assistant's audio from the moment the media stream is open: AI audio chunks
\* with and without a payload, before and after the start event, the marks sent
\* after them and the playback acks that come back, with caller audio in between.
InitPlayback == InitWith({100000})

NextPlayback ==
    \/ twilio_start_on({"7"}, {"none"})
    \/ twilio_start_configured
    \/ twilio_media_on({"5000"}, CallerPayloads)
    \/ twilio_mark
    \/ twilio_disconnected
    \/ openai_audio_delta_on({"item_A"}, AudioPayloads)
    \/ send_mark
    \/ send_mark_append
    \/ openai_stream_ends
    \/ gather_returns
    \/ twilio_connection_lost

SpecPlayback == InitPlayback /\ [][NextPlayback]_vars

\* A call from the moment Twilio asks the webhook what to do with it: the TwiML
\* answer, the media stream Twilio opens when told to, and the call that follows.
InitIncoming ==
    /\ stream_sid = ""
    /\ latest_media_timestamp = 0
    /\ last_assistant_item = ""
    /\ mark_queue = <<>>
    /\ response_start_timestamp_twilio = None
    /\ first_message_sent = FALSE
    /\ agent_id = ""
    /\ agent = None
    /\ openai_open = FALSE
    /\ twilio_open = FALSE
    /\ in_pc = "no_stream"
    /\ out_pc = "no_stream"
    /\ out_local = NoLocal
    /\ handler_done = FALSE
    /\ trace = <<>>
    /\ tw_events = 0
    /\ ai_events = 0
    /\ dispatch_overdue = FALSE
    /\ declined = FALSE
    /\ balance_ok = FALSE
    /\ db_balance \in InitialBalances
    /\ db_total_used = 0
    /\ LedgerIdle
    /\ credit_transactions = <<>>
    /\ call_usage = <<>>

NextIncoming ==
    \/ incoming_call_on(CalledNumbers)
    \/ media_stream_connects
    \/ twilio_start_on({"7"}, DbFaults)
    \/ twilio_start_decline_hangup
    \/ twilio_start_configured
    \/ twilio_media_on({"5000"}, CallerPayloads)
    \/ twilio_stop_on(Durations)
    \/ twilio_disconnected
    \/ openai_stream_ends
    \/ gather_returns
    \/ twilio_connection_lost
    \/ openai_connection_lost

SpecIncoming == InitIncoming /\ [][NextIncoming]_vars

\* ------------------------------------------------- reading the trace
IsBargeIn(f) == f.ch = "ai_rx" /\ f.type = "input_audio_buffer.speech_started"
IsTruncate(f) == f.ch = "ai_tx" /\ f.type = "conversation.item.truncate"
IsClear(f) == f.ch = "tw_tx" /\ f.type = "clear"
IsForwardedAudio(f) == f.ch = "tw_tx" /\ f.type = "media"
IsMark(f) == f.ch = "tw_tx" /\ f.type = "mark"

\* the positions after i up to, and not including, the next audio chunk forwarded
\* or the next barge-in signal taken by the outbound relay
AfterBargeIn(i) ==
    {k \in (i + 1)..Len(trace) :
        \A m \in (i + 1)..k : ~IsForwardedAudio(trace[m]) /\ ~IsBargeIn(trace[m])}
BargeInAnswered(i) ==
    \E m \in (i + 1)..Len(trace) : IsForwardedAudio(trace[m]) \/ IsBargeIn(trace[m])

\* ------------------------------------------------------------ C1
\* C1: a caller-speech-started signal taken while an utterance is active is answered
\* by exactly one truncate frame, carrying that utterance's id, and by exactly one
\* clear frame, and both lie before the next audio chunk the outbound relay forwards.
\* The clear frame is missing only while the relay is still suspended before sending
\* it, or when the telephony connection has gone and the relay has stopped.
C1_TruncateAndClearBeforeAudio ==
    \A i \in DOMAIN trace :
        (IsBargeIn(trace[i]) /\ trace[i].item # "") =>
            LET seg == AfterBargeIn(i) IN
            /\ Cardinality({k \in seg : IsTruncate(trace[k])}) = 1
            /\ \A k \in seg : IsTruncate(trace[k]) => trace[k].item = trace[i].item
            /\ Cardinality({k \in seg : IsClear(trace[k])}) <= 1
            /\ (BargeInAnswered(i) \/ (twilio_open /\ out_pc # "send_clear")) =>
                   Cardinality({k \in seg : IsClear(trace[k])}) = 1

\* an interrupted utterance followed by a further forwarded audio chunk
C1_Witness ==
    \E i, j \in DOMAIN trace :
        /\ i < j
        /\ IsBargeIn(trace[i]) /\ trace[i].item # ""
        /\ IsForwardedAudio(trace[j])

\* ------------------------------------------------------------ C2
\* C2: once an utterance has been truncated, no later audio chunk tagged with its id
\* is forwarded to the telephony edge, no mark is sent for it, and it does not become
\* the active utterance again.
C2_TruncatedChunksDropped ==
    \A i \in DOMAIN trace :
        IsTruncate(trace[i]) =>
            /\ \A j \in (i + 1)..Len(trace) :
                   (IsForwardedAudio(trace[j]) \/ IsMark(trace[j])) => trace[j].item # trace[i].item
            /\ (out_pc = "idle" /\ ~\E j \in (i + 1)..Len(trace) : IsTruncate(trace[j]))
                   => last_assistant_item # trace[i].item

\* ------------------------------------------------------------ C3
\* C3: the truncate frame sent on a barge-in carries
\* audio_end_ms = max(0, latest_media_timestamp - response_start_timestamp_twilio) for
\* the values held when the signal is handled; it is never negative, and it is 1200
\* for an utterance started at 5000 with caller audio at 6200.
C3_TruncateElapsed ==
    [][ (out_pc = "idle" /\ out_pc' = "send_clear" /\ response_start_timestamp_twilio # None) =>
            LET f == trace'[Len(trace')]
                started == response_start_timestamp_twilio[1]
            IN /\ IsTruncate(f)
               /\ f.ms >= 0
               /\ f.ms = IF latest_media_timestamp >= started
                           THEN latest_media_timestamp - started ELSE 0
               /\ (started = 5000 /\ latest_media_timestamp = 6200) => f.ms = 1200
      ]_vars

\* the utterance started at 5000 was interrupted at 6200
C3_Witness ==
    \E i \in DOMAIN trace : IsTruncate(trace[i]) /\ trace[i].ms = 1200

\* ------------------------------------------------------------ C4
\* C4: a caller-speech-started signal taken when no utterance is active sends no
\* truncate frame and no clear frame and changes no session field; the relay goes
\* straight back to waiting for the next AI event.
C4_NoActiveUtteranceNoOp ==
    [][ ( /\ ai_events' = ai_events + 1
          /\ Len(trace') > Len(trace)
          /\ IsBargeIn(trace'[Len(trace) + 1])
          /\ last_assistant_item = "" ) =>
            /\ Len(trace') = Len(trace) + 1
            /\ out_pc' = "idle"
            /\ UNCHANGED session
      ]_vars

\* a second signal right after an interruption, with no audio chunk in between
C4_Witness ==
    /\ out_pc = "idle"
    /\ \E i \in DOMAIN trace :
        /\ i + 3 = Len(trace)
        /\ IsBargeIn(trace[i]) /\ trace[i].item # ""
        /\ IsTruncate(trace[i + 1])
        /\ IsClear(trace[i + 2])
        /\ IsBargeIn(trace[i + 3]) /\ trace[i + 3].item = ""

IsCallerAudio(f) == f.ch = "ai_tx" /\ f.type = "input_audio_buffer.append"
IsDecline(f) == f.ch = "ai_tx" /\ f.type = "response.create" /\ f.info = "decline"
IsGreeting(f) == f.ch = "ai_tx" /\ f.type = "response.create" /\ f.info = "greeting"
CallerAudioSent(tr) == Cardinality({i \in DOMAIN tr : IsCallerAudio(tr[i])})

\* ------------------------------------------------------------ C5
\* C5: once a balance read at a start event has returned zero or less, no
\* input_audio_buffer.append frame is sent to the AI backend any more, the AI
\* connection is closed as soon as the decline message has played, and a call that
\* was declined at its first start event reaches Closed (the handler has ended and
\* both connections are closed).
C5_DeclinedCallSendsNoCallerAudio ==
    /\ [][declined => CallerAudioSent(trace') = CallerAudioSent(trace)]_vars
    /\ []((declined /\ in_pc # "decline_sleep") => ~openai_open)
    /\ [](handler_done => (~openai_open /\ ~twilio_open))
    /\ ((declined /\ ~first_message_sent) ~> handler_done)

\* a call declined on a zero balance that has reached Closed after the decline
\* message was requested
C5_Witness ==
    /\ declined /\ handler_done /\ db_balance = 0
    /\ \E i \in DOMAIN trace : IsDecline(trace[i])

\* ------------------------------------------------------------ C6
\* C6: on insufficient balance the decline message is requested at most once, and
\* once the wait for it is over the AI connection is closed and the inbound relay
\* handles no further event; no greeting is requested after the decline.
C6_DeclineEndsInboundRelay ==
    /\ Cardinality({i \in DOMAIN trace : IsDecline(trace[i])}) <= 1
    /\ (declined /\ in_pc # "decline_sleep") => (~openai_open /\ in_pc # "wait")
    /\ \A i, j \in DOMAIN trace : (i < j /\ IsDecline(trace[i])) => ~IsGreeting(trace[j])

\* ------------------------------------------------------------ C7
\* C7: the automatic greeting is requested only for a call whose agent was resolved
\* and whose balance read returned a positive amount.
C7_GreetingOnlyWithAgentAndCredit ==
    (first_message_sent \/ \E i \in DOMAIN trace : IsGreeting(trace[i])) =>
        (agent # None /\ balance_ok)

IsFunctionCall(f) == f.ch = "ai_rx" /\ f.type = "response.function_call_arguments.done"
IsFunctionCallOutput(f) == f.ch = "ai_tx" /\ f.type = "function_call_output"
IsToolResponseCreate(f) == f.ch = "ai_tx" /\ f.type = "response.create" /\ f.info = "function_call"

\* ------------------------------------------------------------ C8
\* C8: when a tool dispatch that has run past the dispatch timeout ends while the AI
\* connection is open, what the outbound relay sends is a function_call_output
\* carrying the timeout error.
C8_OverdueDispatchAnsweredWithTimeout ==
    [][(out_pc = "dispatch" /\ dispatch_overdue /\ out_pc' # "dispatch" /\ openai_open) =>
         /\ Len(trace') = Len(trace) + 1
         /\ IsFunctionCallOutput(trace'[Len(trace')])
         /\ trace'[Len(trace')].info = "timeout"]_vars

\* ------------------------------------------------------------ C9
\* C9: while a tool dispatch is in flight, a caller audio event that has arrived on
\* an open telephony connection can be forwarded by the inbound relay.
C9_AudioForwardedDuringDispatch ==
    (/\ out_pc = "dispatch" /\ in_pc = "wait" /\ ~handler_done
     /\ twilio_open /\ openai_open /\ tw_events < MaxTwilioEvents)
        => ENABLED twilio_media_on({"5000"}, CallerPayloads)

\* ------------------------------------------------------------ C10
\* C10: once the outbound relay is idle again on an open AI connection, every tool
\* call request received so far has been answered by one function_call_output with
\* its call id and one response.create.
C10_EveryToolCallAnsweredOnce ==
    (out_pc = "idle" /\ openai_open) =>
        \A c \in CallIds :
            LET calls == Cardinality({i \in DOMAIN trace : IsFunctionCall(trace[i]) /\ trace[i].item = c})
            IN /\ Cardinality({i \in DOMAIN trace :
                                 IsFunctionCallOutput(trace[i]) /\ trace[i].item = c}) = calls
               /\ Cardinality({i \in DOMAIN trace :
                                 IsToolResponseCreate(trace[i]) /\ trace[i].item = c}) = calls

\* ------------------------------------------------------------ C11
\* a step in which the handling of a tool call ends without a result: the call
\* failed before any integration was reached, or the integration raised or returned
\* nothing
ToolCallFailsInStep ==
    \/ /\ out_pc = "idle" /\ out_pc' \notin {"dispatch", "send_response"}
       /\ Len(trace') = Len(trace) + 1 /\ IsFunctionCall(trace'[Len(trace')])
    \/ /\ out_pc = "dispatch" /\ out_pc' # "dispatch" /\ ~result_sent(out_local.outcome)

\* C11: a tool call that fails leaves the outbound relay waiting for the next AI
\* event, closes neither connection, does not disturb the inbound relay and does
\* not end the handler.
C11_FailedToolCallKeepsCallRunning ==
    [][ToolCallFailsInStep =>
         /\ out_pc' = "idle"
         /\ openai_open' = openai_open /\ twilio_open' = twilio_open
         /\ in_pc' = in_pc /\ handler_done' = handler_done]_vars

\* an AI event (speech_stopped) was processed after a check_availability call that
\* failed on the missing agent id and got no answer
C11_Witness ==
    \E i, j \in DOMAIN trace :
        /\ i < j
        /\ agent_id = ""
        /\ IsFunctionCall(trace[i]) /\ trace[i].info = "check_availability"
        /\ \A k \in DOMAIN trace : ~IsFunctionCallOutput(trace[k])
        /\ trace[j].ch = "ai_tx" /\ trace[j].type = "input_audio_buffer.commit"
        /\ out_pc = "idle" /\ openai_open

\* ------------------------------------------------------------ C12
\* C12: a call is charged at most once, and when the handler of a call that was
\* funded and greeted has ended, its usage record is closed and its charge is in
\* the ledger.
C12_BillingFinalizedExactlyOnce ==
    /\ Len(credit_transactions) <= 1
    /\ (handler_done /\ balance_ok /\ first_message_sent) =>
          /\ \A i \in DOMAIN call_usage : call_usage[i].status = "completed"
          /\ Len(credit_transactions) = 1

\* ------------------------------------------------------------ C13
\* cost per minute 0.05 in 1/10000 dollar, and the markup
CostPerMinute == 500
Markup == 2

IsStopLog(f) == f.ch = "log" /\ f.type = "stop"
IsFailedStop(f) == IsStopLog(f) /\ f.info \in {"raised", "deduction_failed"}

\* ------------------------------------------------------------ C15
\* C15: the step that handles a stop event whose deduction fails or whose
\* finalization raises leaves the ledger and the balance as they were and ends the
\* inbound relay's loop normally, and no later step touches the ledger or the
\* balance.
C15_FailedDeductionOnlyLogged ==
    /\ [][(Len(trace') = Len(trace) + 1 /\ IsFailedStop(trace'[Len(trace')])) =>
            /\ in_pc' = "done"
            /\ credit_transactions' = credit_transactions
            /\ db_balance' = db_balance /\ db_total_used' = db_total_used]_vars
    /\ [][(\E i \in DOMAIN trace : IsFailedStop(trace[i])) =>
            /\ credit_transactions' = credit_transactions
            /\ db_balance' = db_balance
            /\ in_pc' = in_pc]_vars

\* a call whose deduction was refused by the ledger has been torn down uncharged
C15_Witness ==
    /\ \E i \in DOMAIN trace : IsStopLog(trace[i]) /\ trace[i].info = "deduction_failed"
    /\ handler_done /\ credit_transactions = <<>>

IsTwiml(f) == f.ch = "http" /\ f.by = "incoming_call"

\* ------------------------------------------------------------ C16
\* C16: when the dialed number resolves to no agent, the webhook's answer is the
\* spoken message "No agent is configured on this number." and nothing else ever
\* happens for that call: no media stream is connected and no AI connection is
\* opened, so no frame follows the answer.
C16_NoAgentNoMediaStream ==
    \A i \in DOMAIN trace :
        (IsTwiml(trace[i]) /\ resolve_called_number(trace[i].item) = None) =>
            /\ trace[i].type = "Say"
            /\ trace[i].info = "No agent is configured on this number."
            /\ Len(trace) = 1
            /\ ~openai_open /\ ~twilio_open
            /\ in_pc = "no_stream" /\ out_pc = "no_stream"

\* the webhook has answered a call to a number that no agent has
C16_Witness ==
    /\ Len(trace) = 1 /\ IsTwiml(trace[1])
    /\ trace[1].item = "+15550199" /\ trace[1].type = "Say"

\* ------------------------------------------------------------ C17
\* C17: latest_media_timestamp never decreases from one state to the next.
C17_LatestTimestampNeverDecreases ==
    [][latest_media_timestamp' >= latest_media_timestamp]_vars

\* ------------------------------------------------------------ C18
\* C18: in every state, whichever relay is suspended and wherever,
\* response_start_timestamp_twilio is set exactly when last_assistant_item is.
C18_StartTimestampIffActiveItem ==
    (response_start_timestamp_twilio # None) <=> (last_assistant_item # "")

\* the outbound relay is suspended inside a barge-in, between the truncate and the
\* clear, with an utterance still active, after the inbound relay has handled an event
C18_Witness ==
    /\ out_pc = "send_clear" /\ last_assistant_item # ""
    /\ response_start_timestamp_twilio # None
    /\ tw_events >= 2

GreetingsSent == Cardinality({i \in DOMAIN trace : IsGreeting(trace[i])})

\* ------------------------------------------------------------ C19
\* C19: the greeting request is sent at most once whatever start events arrive, the
\* flag first_message_sent is set exactly when it has been sent, and a funded call
\* whose start event has been handled has had it sent exactly once.
C19_GreetingAtMostOnce ==
    /\ GreetingsSent <= 1
    /\ first_message_sent <=> GreetingsSent = 1
    /\ (balance_ok /\ in_pc = "wait") => GreetingsSent = 1

\* two start events of a funded call have been handled and one greeting was sent
C19_Witness ==
    /\ Len(call_usage) = 2 /\ in_pc = "wait"
    /\ GreetingsSent = 1

\* ------------------------------------------------------------ C20
\* C20: after the stop event has been handled, no AI audio chunk is sent to the
\* telephony connection and no caller audio is sent to the AI connection.
C20_NoAudioAfterStop ==
    \A i, j \in DOMAIN trace :
        (i < j /\ IsStopLog(trace[i])) =>
            (~IsForwardedAudio(trace[j]) /\ ~IsCallerAudio(trace[j]))

\* ------------------------------------------------------------ C21
\* C21: once the stop event has been handled, or the telephony connection or the AI
\* connection has closed, the handler eventually terminates with both relays stopped.
C21_CallEndTerminatesHandler ==
    ((\E i \in DOMAIN trace : IsStopLog(trace[i])) \/ ~twilio_open \/ ~openai_open)
        ~> handler_done

\* session configurations sent by handle_media_stream itself on a fresh AI connection
FreshSessions ==
    Cardinality({i \in DOMAIN trace :
        trace[i].ch = "ai_tx" /\ trace[i].type = "session.update" /\ trace[i].by = "handler"})

\* ------------------------------------------------------------ C22
\* C22: when the outbound relay has ended because the AI connection failed, while
\* the caller is still connected and the call was not declined, a reconnect with a
\* fresh session configuration has been attempted.
C22_ReconnectAfterAiFailure ==
    (/\ ~openai_open /\ out_pc = "done" /\ ~handler_done
     /\ twilio_open /\ in_pc = "wait" /\ ~declined)
        => FreshSessions >= 2

IsSpeechStopped(f) == f.ch = "ai_rx" /\ f.type = "input_audio_buffer.speech_stopped"
IsCommit(f) == f.ch = "ai_tx" /\ f.type = "input_audio_buffer.commit"
IsResponseCreate(f) == f.ch = "ai_tx" /\ f.type = "response.create"
IsTurnRequest(f) == IsResponseCreate(f) /\ f.info = "speech_stopped"
\* frame i is the last thing the outbound relay did before frame j
OutboundPredecessor(i, j) ==
    /\ i < j /\ trace[i].by = "out"
    /\ \A k \in (i + 1)..(j - 1) : trace[k].by # "out"

\* ------------------------------------------------------------ C23
\* C23: every speech_stopped event is answered at once by one commit frame, every
\* commit frame answers a speech_stopped event, and the commit is followed by one
\* response.create once the relay is idle again on an open AI connection.  Every
\* response.create of the outbound relay comes straight after a commit or a tool
\* result; the only others are the greeting and the decline message of the inbound
\* relay.
C23_SpeechStoppedCommitsAndRequests ==
    /\ \A i \in DOMAIN trace :
          IsSpeechStopped(trace[i]) => (i < Len(trace) /\ IsCommit(trace[i + 1]))
    /\ \A i \in DOMAIN trace :
          IsCommit(trace[i]) => (i > 1 /\ IsSpeechStopped(trace[i - 1]))
    /\ \A j \in DOMAIN trace :
          IsResponseCreate(trace[j]) =>
              IF trace[j].by = "out"
                THEN \E i \in DOMAIN trace :
                        /\ OutboundPredecessor(i, j)
                        /\ \/ IsCommit(trace[i]) /\ trace[j].info = "speech_stopped"
                           \/ IsFunctionCallOutput(trace[i]) /\ trace[j].info = "function_call"
                ELSE trace[j].info \in {"greeting", "decline"}
    /\ (out_pc = "idle" /\ openai_open) =>
          Cardinality({j \in DOMAIN trace : IsTurnRequest(trace[j])})
              = Cardinality({i \in DOMAIN trace : IsCommit(trace[i])})

\* two speech_stopped events have each been answered by a commit and a response.create
C23_Witness ==
    /\ Cardinality({i \in DOMAIN trace : IsSpeechStopped(trace[i])}) = 2
    /\ Cardinality({j \in DOMAIN trace : IsTurnRequest(trace[j])}) = 2

IsCallerFrame(f) == f.ch = "tw_rx" /\ f.type = "media"
CallerFramesReceived == SelectSeq(trace, IsCallerFrame)
CallerFramesForwarded == SelectSeq(trace, IsCallerAudio)

\* ------------------------------------------------------------ C24
\* C24: the step that takes a caller audio frame sends it on at once, payload
\* unchanged, when the AI connection is open, and changes no session field but
\* latest_media_timestamp; the frames forwarded so far are the frames received so
\* far, in the same order, each once, the last one missing only if the AI connection
\* was closed when it arrived.
C24_CallerAudioForwardedOnceInOrder ==
    /\ [][(Len(trace') > Len(trace) /\ IsCallerFrame(trace'[Len(trace) + 1])) =>
            /\ UNCHANGED <<stream_sid, last_assistant_item, mark_queue,
                           response_start_timestamp_twilio, first_message_sent, agent_id, agent>>
            /\ IF openai_open
                 THEN /\ Len(trace') = Len(trace) + 2
                      /\ IsCallerAudio(trace'[Len(trace')])
                      /\ trace'[Len(trace')].item = trace'[Len(trace) + 1].item
                 ELSE Len(trace') = Len(trace) + 1]_vars
    /\ [](/\ Len(CallerFramesForwarded) <= Len(CallerFramesReceived)
          /\ Len(CallerFramesReceived) <= Len(CallerFramesForwarded) + 1
          /\ \A i \in DOMAIN CallerFramesForwarded :
                CallerFramesForwarded[i].item = CallerFramesReceived[i].item)

\* two different caller frames have been forwarded in the order they arrived
C24_Witness ==
    /\ Len(CallerFramesForwarded) >= 2
    /\ CallerFramesForwarded[1].item = "ulaw_2"
    /\ CallerFramesForwarded[2].item = "ulaw_1"

\* ------------------------------------------------------------ C25
\* C25: a step that forwards an AI audio chunk leaves its utterance id as the active
\* one; if that id was not the active one before, the start timestamp becomes the
\* latest_media_timestamp of that moment, otherwise it stays as it was.  The start
\* timestamp changes in no step that leaves the active id as it is.
C25_StartTimestampSetAtFirstChunk ==
    /\ [][(Len(trace') = Len(trace) + 1 /\ IsForwardedAudio(trace'[Len(trace')])) =>
            /\ last_assistant_item' = trace'[Len(trace')].item
            /\ IF trace'[Len(trace')].item # last_assistant_item
                 THEN response_start_timestamp_twilio' = Some(latest_media_timestamp)
                 ELSE response_start_timestamp_twilio' = response_start_timestamp_twilio]_vars
    /\ [][last_assistant_item' = last_assistant_item =>
            response_start_timestamp_twilio' = response_start_timestamp_twilio]_vars

\* a second chunk of the active utterance has been forwarded after the caller's
\* timestamp had moved on, and the start timestamp is still that of the first chunk
C25_Witness ==
    /\ response_start_timestamp_twilio = Some(5000) /\ latest_media_timestamp = 6200
    /\ IsForwardedAudio(trace[Len(trace)]) /\ trace[Len(trace)].item = last_assistant_item
    /\ Cardinality({i \in DOMAIN trace :
          IsForwardedAudio(trace[i]) /\ trace[i].item = last_assistant_item}) >= 2

\* no frame of the outbound relay follows frame i
LastOutboundFrame(i) == \A k \in (i + 1)..Len(trace) : trace[k].by # "out"

\* ------------------------------------------------------------ C26
\* C26: every mark sent to the telephony connection comes straight after the media
\* message of a forwarded chunk, and every such media message is followed by its
\* mark unless the relay is still about to send it or the telephony connection has
\* dropped; the queue grows only by one entry at a time, right after a mark was
\* sent, and always does so then.  A chunk that arrives before the start event, or
\* with an empty payload, sends nothing and changes nothing.
C26_ChunkSendsMediaMarkAndQueues ==
    /\ [](\A j \in DOMAIN trace :
            IsMark(trace[j]) =>
                \E i \in DOMAIN trace :
                    /\ OutboundPredecessor(i, j)
                    /\ IsForwardedAudio(trace[i]) /\ trace[i].item = trace[j].item)
    /\ [](\A i \in DOMAIN trace :
            IsForwardedAudio(trace[i]) =>
                /\ trace[i].info # ""
                /\ \/ \E j \in DOMAIN trace : OutboundPredecessor(i, j) /\ IsMark(trace[j])
                   \/ LastOutboundFrame(i) /\ out_pc = "send_mark"
                   \/ LastOutboundFrame(i) /\ out_pc = "done" /\ ~twilio_open)
    /\ [][Len(mark_queue') > Len(mark_queue) =>
            /\ mark_queue' = Append(mark_queue, "responsePart")
            /\ out_pc = "mark_append"
            /\ \E j \in DOMAIN trace : IsMark(trace[j]) /\ LastOutboundFrame(j)]_vars
    /\ [][(out_pc = "mark_append" /\ out_pc' # "mark_append") =>
            mark_queue' = Append(mark_queue, "responsePart")]_vars
    /\ [][ai_events' = ai_events + 1 =>
            \/ /\ stream_sid # ""
               /\ Len(trace') = Len(trace) + 1 /\ IsForwardedAudio(trace'[Len(trace')])
            \/ /\ stream_sid # "" /\ ~twilio_open /\ out_pc' = "done" /\ trace' = trace
            \/ UNCHANGED <<session, conns, trace, out_pc, out_local>>]_vars

\* of two chunks one was dropped and one was forwarded with its mark and queue entry
C26_Witness ==
    /\ ai_events = 2 /\ out_pc = "idle"
    /\ Cardinality({i \in DOMAIN trace : IsForwardedAudio(trace[i])}) = 1
    /\ Cardinality({i \in DOMAIN trace : IsMark(trace[i])}) = 1
    /\ mark_queue = <<"responsePart">>

IsMarkReceived(f) == f.ch = "tw_rx" /\ f.type = "mark"

\* ------------------------------------------------------------ C27
\* C27: a mark event from the telephony connection removes the oldest entry of
\* mark_queue when there is one and otherwise changes nothing; either way the
\* inbound relay keeps waiting for the next event and nothing else of the session
\* or of the connections changes.
C27_MarkPopsOldestOrIsIgnored ==
    [][(Len(trace') = Len(trace) + 1 /\ IsMarkReceived(trace'[Len(trace')])) =>
          /\ mark_queue' = IF mark_queue = <<>> THEN <<>> ELSE Tail(mark_queue)
          /\ in_pc = "wait" /\ in_pc' = "wait"
          /\ UNCHANGED <<stream_sid, latest_media_timestamp, last_assistant_item,
                         response_start_timestamp_twilio, first_message_sent, conns,
                         out_pc, handler_done>>]_vars

\* two marks have come back for the one mark sent: one emptied the queue, the
\* other found it empty, and the inbound relay still waits
C27_Witness ==
    /\ Cardinality({i \in DOMAIN trace : IsMarkReceived(trace[i])}) = 2
    /\ Cardinality({i \in DOMAIN trace : IsMark(trace[i])}) = 1
    /\ mark_queue = <<>> /\ out_pc = "idle"
    /\ in_pc = "wait"

IsSessionUpdate(f) == f.ch = "ai_tx" /\ f.type = "session.update"

\* ------------------------------------------------------------ C28
\* C28: no more than one session configuration is sent to the AI connection in a
\* call, so the configuration the AI holds is never replaced during the call.
C28_OneSessionConfiguration ==
    Cardinality({i \in DOMAIN trace : IsSessionUpdate(trace[i])}) <= 1

\* ------------------------------------------------ add_credits and deduct_credits, step by step
\* Each call runs on a connection of its own (get_conn, db.py:34-36), from a portal
\* request, the billing job or a call that ends, so the statements of two calls
\* interleave at the database.  A call's UPDATE, INSERT and commit form one step: the
\* row it updates stays locked until the commit.
call_side == <<session, conns, in_pc, out_pc, out_local, handler_done, trace, tw_events,
               ai_events, dispatch_overdue, gate, call_usage>>

\* db.py:1012-1019: add_credits is called and get_user_credits creates the row if
\* there is none (db.py:972-977)
add_credits_get_user_credits ==
    /\ \E r \in ReqIds, amount \in PurchaseAmounts :
        /\ requests[r].pc = "none"
        /\ requests' = [requests EXCEPT ![r] =
                           [op |-> "add", pc |-> "update", amount |-> amount,
                            current_balance |-> 0, success |-> FALSE]]
    /\ user_credits_row' = TRUE
    /\ UNCHANGED <<db_balance, db_total_used, db_total_purchased, credit_transactions,
                   call_side>>

\* db.py:1021-1048: balance = balance + amount in SQL, the ledger entry, the commit
add_credits_update ==
    /\ \E r \in ReqIds :
        /\ requests[r].op = "add" /\ requests[r].pc = "update"
        /\ db_balance' = db_balance + requests[r].amount
        /\ db_total_purchased' = db_total_purchased + requests[r].amount
        /\ credit_transactions' = Append(credit_transactions,
               [amount |-> requests[r].amount, type |-> "purchase",
                balance_after |-> db_balance + requests[r].amount])
        /\ requests' = [requests EXCEPT ![r].pc = "done", ![r].success = TRUE]
    /\ UNCHANGED <<db_total_used, user_credits_row, call_side>>

\* db.py:1051-1073 without the test of current_balance < amount
deduct_credits_select_unchecked ==
    /\ \E r \in ReqIds, amount \in ChargeAmounts :
        /\ requests[r].pc = "none"
        /\ requests' = [requests EXCEPT ![r] =
               IF ~user_credits_row
                 THEN [op |-> "deduct", pc |-> "done", amount |-> amount,
                       current_balance |-> 0, success |-> FALSE]
                 ELSE [op |-> "deduct", pc |-> "update", amount |-> amount,
                       current_balance |-> db_balance, success |-> FALSE]]
    /\ UNCHANGED <<db_balance, db_total_used, db_total_purchased, user_credits_row,
                   credit_transactions, call_side>>

\* db.py:1051-1073: deduct_credits is called, reads the balance and returns a
\* failure when there is no row or the balance is below the amount
deduct_credits_select ==
    /\ \E r \in ReqIds, amount \in ChargeAmounts :
        /\ requests[r].pc = "none"
        /\ requests' = [requests EXCEPT ![r] =
               IF ~user_credits_row
                 THEN [op |-> "deduct", pc |-> "done", amount |-> amount,
                       current_balance |-> 0, success |-> FALSE]
               ELSE IF db_balance < amount
                 THEN [op |-> "deduct", pc |-> "done", amount |-> amount,
                       current_balance |-> db_balance, success |-> FALSE]
                 ELSE [op |-> "deduct", pc |-> "update", amount |-> amount,
                       current_balance |-> db_balance, success |-> FALSE]]
    /\ UNCHANGED <<db_balance, db_total_used, db_total_purchased, user_credits_row,
                   credit_transactions, call_side>>

\* db.py:1075-1102: balance = new_balance computed from the balance read before,
\* total_used = total_used + amount in SQL, the ledger entry, the commit
deduct_credits_update ==
    /\ \E r \in ReqIds :
        /\ requests[r].op = "deduct" /\ requests[r].pc = "update"
        /\ LET new_balance == requests[r].current_balance - requests[r].amount
           IN /\ db_balance' = new_balance
              /\ db_total_used' = db_total_used + requests[r].amount
              /\ credit_transactions' = Append(credit_transactions,
                     [amount |-> 0 - requests[r].amount, type |-> "usage",
                      balance_after |-> new_balance])
        /\ requests' = [requests EXCEPT ![r].pc = "done", ![r].success = TRUE]
    /\ UNCHANGED <<db_total_purchased, user_credits_row, call_side>>

\* One account under purchases and charges issued side by side while no call is
\* being relayed; the account starts without a row, or with a row whose balance is
\* what was purchased.
InitLedger ==
    /\ stream_sid = ""
    /\ latest_media_timestamp = 0
    /\ last_assistant_item = ""
    /\ mark_queue = <<>>
    /\ response_start_timestamp_twilio = None
    /\ first_message_sent = FALSE
    /\ agent_id = ""
    /\ agent = None
    /\ openai_open = FALSE
    /\ twilio_open = FALSE
    /\ in_pc = "no_stream"
    /\ out_pc = "no_stream"
    /\ out_local = NoLocal
    /\ handler_done = FALSE
    /\ trace = <<>>
    /\ tw_events = 0
    /\ ai_events = 0
    /\ dispatch_overdue = FALSE
    /\ declined = FALSE
    /\ balance_ok = FALSE
    /\ user_credits_row \in BOOLEAN
    /\ db_balance \in (IF user_credits_row THEN OpeningBalances ELSE {0})
    /\ db_total_purchased = db_balance
    /\ db_total_used = 0
    /\ credit_transactions = <<>>
    /\ call_usage = <<>>
    /\ requests = [r \in ReqIds |-> NoRequest]

NextLedger ==
    \/ add_credits_get_user_credits
    \/ add_credits_update
    \/ deduct_credits_select
    \/ deduct_credits_update

SpecLedger == InitLedger /\ [][NextLedger]_vars

\* request r finishes in this step with a failure
FailsInStep(r) ==
    requests[r].pc # "done" /\ requests'[r].pc = "done" /\ ~requests'[r].success

\* ------------------------------------------------------------ C29
\* C29: a charge that finds no row for the account, or a balance below its amount,
\* ends at once with a failure; a call that ends with a failure leaves the balance,
\* total_used, total_purchased and the ledger as they were; and the balance is never
\* negative.
C29_FailedChargeChangesNothing ==
    /\ [][\A r \in ReqIds :
            (requests[r].pc = "none" /\ requests'[r].op = "deduct"
             /\ (~user_credits_row \/ db_balance < requests'[r].amount)) =>
                FailsInStep(r)]_vars
    /\ [][\A r \in ReqIds :
            FailsInStep(r) =>
                UNCHANGED <<db_balance, db_total_used, db_total_purchased,
                            credit_transactions, user_credits_row>>]_vars
    /\ [](db_balance >= 0)

\* one charge has gone through, a later one has failed on the balance that was left
C29_Witness ==
    /\ user_credits_row
    /\ \E r \in ReqIds :
        /\ requests[r].op = "deduct" /\ requests[r].pc = "done" /\ ~requests[r].success
        /\ requests[r].current_balance = db_balance /\ db_balance > 0
    /\ \E r \in ReqIds :
        requests[r].op = "deduct" /\ requests[r].pc = "done" /\ requests[r].success

\* ------------------------------------------------------------ C30
\* C30: every step changes the balance by exactly what it adds to total_purchased
\* minus what it adds to total_used, so no purchase and no charge is lost.
C30_NoLostUpdate ==
    [][db_balance' - db_balance =
          (db_total_purchased' - db_total_purchased) - (db_total_used' - db_total_used)]_vars
====
